---- MODULE Spec2Model ----
(***************************************************************************)
(* Mentor/company meeting scheduler (ts-mm-calenderer).                    *)
(*                                                                         *)
(* Two variants of create_schedule are modelled as one state machine whose *)
(* initial state chooses the variant and its inputs:                       *)
(*   "rotation" : src/src/app.py create_schedule (index rotation)          *)
(*   "avoid"    : src/app.py create_schedule (avoid-repeat, BREAK records) *)
(* Every action is one loop iteration or one loop header of the code; pc   *)
(* names the loop the run is in.                                           *)
(***************************************************************************)
EXTENDS Integers, Sequences, FiniteSets, TLC

(* ------------------------------ bounds -------------------------------- *)

\* longest list of input records / mentors in which names and dates are free
MaxRecords == 3
\* longest roster of pairwise distinct mentors on one date
MaxRoster == 8
\* longest company list
MaxCompanies == 6
\* most slots handed to the index-rotation variant
MaxSlots == 4
\* longest name handed to convert_name_to_url_format
MaxNameLen == 4
MaxAirtableRecords == 2
MaxEvents == 2

(* --------------------------- program constants ------------------------ *)

\* src/config/meeting_config.py: MEETING_DURATION
MEETING_DURATION == 15
\* src/config/meeting_config.py: MEETING_SLOTS[...]['break_duration']
BREAK_DURATION == 5

BREAK == "BREAK"

\* the company directory of main(), in key order
AllCompanies ==
  <<"Alethica", "Ovida", "Renn", "PrettyData", "Tova", "Solim Health", "Parasol">>

\* mentor names used for the inputs
AllNames == <<"Ann", "Bob", "Cy", "Di", "Ed", "Flo", "Gus", "Hal", "Ida">>
DupNames == {AllNames[1], AllNames[2]}
Dates == {"2025-03-10", "2025-03-11"}
FirstDate == "2025-03-10"
\* stands for a key that is absent from a record's fields
NoField == "<absent>"

\* the default of fields.get('Role', 'Mentor')
DefaultRole == "Mentor"
\* the empty string, as the value of a text field
EmptyText == ""
\* what pandas.read_csv returns for an empty cell
NaN == "nan"

\* the prefix of the location URL
LookbookUrl == "https://techstars-ldn-mentor-lookbook.lovable.app/mentor/"

\* an e-mail string is the sequence of its comma-separated parts; a part is
\* its text without the surrounding blanks, and whether it had any
Part(pad, text) == [pad |-> pad, text |-> text]
\* the empty string '' has one part, which is empty
EmptyString == <<Part(FALSE, "")>>

\* main(): companies_with_emails
EmailsOf(company) ==
  CASE company = "Alethica" ->
         <<Part(FALSE, "faisal.ghaffar@alethica.com"), Part(TRUE, "aurelia.lefrapper@alethica.com")>>
    [] company = "Ovida" -> <<Part(FALSE, "alex@ovida.io")>>
    [] company = "Renn" -> <<Part(FALSE, "matan@getrenn.com"), Part(TRUE, "nleinov@gmail.com")>>
    [] company = "PrettyData" -> <<Part(FALSE, "bww@prettydata.co")>>
    [] company = "Tova" -> <<Part(FALSE, "alexa@tova.earth")>>
    [] company = "Solim Health" ->
         <<Part(FALSE, "basnetabhaya@gmail.com"), Part(TRUE, "tonyelvis-steven@hotmail.com")>>
    [] company = "Parasol" ->
         <<Part(FALSE, "Kasparharsaae@parasolplatforms.com"), Part(TRUE, "momirzan@parasolplatforms.com")>>

\* the characters of the mentor names
NameChars(name) ==
  CASE name = "Ann" -> <<"A", "n", "n">>
    [] name = "Bob" -> <<"B", "o", "b">>
    [] name = "Cy"  -> <<"C", "y">>
    [] name = "Di"  -> <<"D", "i">>
    [] name = "Ed"  -> <<"E", "d">>
    [] name = "Flo" -> <<"F", "l", "o">>
    [] name = "Gus" -> <<"G", "u", "s">>
    [] name = "Hal" -> <<"H", "a", "l">>
    [] name = "Ida" -> <<"I", "d", "a">>

(* ------------------------------ helpers ------------------------------- *)

Range(s) == {s[i] : i \in DOMAIN s}
Prefix(s, n) == [i \in 1..n |-> s[i]]
SeqsUpTo(S, n) == UNION {[1..k -> S] : k \in 0..n}
Distinct(s) == \A i, j \in DOMAIN s : i # j => s[i] # s[j]
Min(a, b) == IF a < b THEN a ELSE b
Max(a, b) == IF a > b THEN a ELSE b

\* list.remove(x): drop the first occurrence of x
RemoveFirst(s, x) ==
  IF x \notin Range(s) THEN s
  ELSE LET k == CHOOSE i \in DOMAIN s : s[i] = x /\ \A j \in 1..(i-1) : s[j] # x
       IN [i \in 1..(Len(s)-1) |-> IF i < k THEN s[i] ELSE s[i+1]]

(* --------------------------- times and slots -------------------------- *)

\* a time of day "HH:MM" is the pair <<HH, MM>>
\* datetime.strptime(.., '%H:%M') : minutes since midnight
ParseHM(hm) == hm[1] * 60 + hm[2]
\* strftime('%H:%M') of a datetime t minutes after midnight of the first day
FormatHM(t) == <<(t % 1440) \div 60, t % 60>>

\* a time text that strptime rejects: "25:00"
BadTime == <<25, 0>>
\* strptime accepts hours 00-23 and minutes 00-59
ValidHM(hm) == hm[1] \in 0..23 /\ hm[2] \in 0..59

\* src/config/configure_schedule.py parse_time: <<minutes>>, or <<>> for None
parse_time(time_str) == IF ValidHM(time_str) THEN <<ParseHM(time_str)>> ELSE <<>>

\* datetime.strptime(f"{date} {hm}", '%Y-%m-%d %H:%M').isoformat()
IsoDateTime(date, hm) == [date |-> date, minute |-> ParseHM(hm)]

\* src/app.py generate_time_slots: the fixed table of the avoid-repeat variant
time_ranges ==
  << <<<<9, 30>>, <<9, 50>>>>,   <<<<9, 55>>, <<10, 15>>>>,
     <<<<10, 20>>, <<10, 40>>>>, <<<<10, 55>>, <<11, 15>>>>,
     <<<<11, 20>>, <<11, 40>>>>, <<<<12, 50>>, <<13, 10>>>>,
     <<<<13, 15>>, <<13, 35>>>>, <<<<13, 40>>, <<14, 0>>>> >>

generate_time_slots(date_str) ==
  [k \in 1..Len(time_ranges) |->
     [start |-> IsoDateTime(date_str, time_ranges[k][1]),
      end   |-> IsoDateTime(date_str, time_ranges[k][2])]]

\* variant of WalkMeetings: the lunch break is never added
RECURSIVE WalkMeetings_NoLunch(_, _, _)
WalkMeetings_NoLunch(p, current_time, meeting_count) ==
  IF meeting_count >= p.num_meetings THEN <<>>
  ELSE LET meeting_end == current_time + p.mtg_length
           after_break == IF p.has_breaks /\ meeting_count + 1 < p.num_meetings
                          THEN meeting_end + p.break_length
                          ELSE meeting_end
       IN <<[start |-> FormatHM(current_time), end |-> FormatHM(meeting_end)]>>
            \o WalkMeetings_NoLunch(p, after_break, meeting_count + 1)

\* src/config/configure_schedule.py generate_meeting_times: the while loop
RECURSIVE WalkMeetings(_, _, _)
WalkMeetings(p, current_time, meeting_count) ==
  IF meeting_count >= p.num_meetings THEN <<>>
  ELSE LET meeting_end == current_time + p.mtg_length
           count == meeting_count + 1
           after_break == IF p.has_breaks /\ count < p.num_meetings
                          THEN meeting_end + p.break_length
                          ELSE meeting_end
           after_lunch == IF p.has_lunch /\ count = p.num_meetings \div 2
                          THEN after_break + p.lunch_length
                          ELSE after_break
       IN <<[start |-> FormatHM(current_time), end |-> FormatHM(meeting_end)]>>
            \o WalkMeetings(p, after_lunch, count)

\* lines 52-88: [] when the start time does not parse, the walk otherwise
generate_meeting_times(p) ==
  LET start_time == parse_time(p.first_mtg_start)
  IN IF start_time = <<>> THEN <<>> ELSE WalkMeetings(p, start_time[1], 0)

\* the slot table the index-rotation variant loads for s meetings
ConfiguredSlots(s) ==
  generate_meeting_times(
    [mtg_length |-> MEETING_DURATION, num_meetings |-> s, has_breaks |-> TRUE,
     break_length |-> BREAK_DURATION, has_lunch |-> FALSE, lunch_length |-> 0,
     first_mtg_start |-> <<9, 30>>])

\* slot tables with a time that does not parse
BadSlotConfigs ==
  {[ConfiguredSlots(MaxSlots) EXCEPT ![MaxSlots].end = BadTime],
   [ConfiguredSlots(1) EXCEPT ![1].start = BadTime]}

\* the parameters generate_meeting_times is called with
GeneratorParams ==
  [mtg_length : {MEETING_DURATION, 20}, num_meetings : 0..MaxSlots,
   has_breaks : BOOLEAN, break_length : {0, BREAK_DURATION},
   has_lunch : BOOLEAN, lunch_length : {0, 30},
   first_mtg_start : {<<9, 30>>, <<23, 50>>, BadTime}]

\* what --date can be: absent, a date, or a text strptime('%Y-%m-%d') rejects
DateArguments == {""} \cup Dates \cup {"10/03/2025"}
\* the command lines of src/src/app.py
CommandLines == [date : DateArguments, cache : BOOLEAN]
\* no command line
NoArgs == [date |-> "", cache |-> FALSE]

\* the parameters of a run that does not call generate_meeting_times
NoParams == [num_meetings |-> 0]

(* ------------------------------ texts --------------------------------- *)

UpperCase ==
  <<"A", "B", "C", "D", "E", "F", "G", "H", "I", "J", "K", "L", "M",
    "N", "O", "P", "Q", "R", "S", "T", "U", "V", "W", "X", "Y", "Z">>
LowerCase ==
  <<"a", "b", "c", "d", "e", "f", "g", "h", "i", "j", "k", "l", "m",
    "n", "o", "p", "q", "r", "s", "t", "u", "v", "w", "x", "y", "z">>
Whitespace == {" ", "\t", "\n"}
\* a capital letter that str.lower() leaves as it is: U+2102, DOUBLE-STRUCK
\* CAPITAL C (str.isupper() is True, the letter has no lower-case form)
UncasedCapital == "U+2102"

\* the characters of the names handed to convert_name_to_url_format
NameAlphabet == {"A", "b", " ", "\t", UncasedCapital}
\* the names: letters and whitespace, up to MaxNameLen characters
Names == SeqsUpTo(NameAlphabet, MaxNameLen)

\* str.lower(), on a sequence of characters
Lower(chars) ==
  [i \in DOMAIN chars |->
     IF \E k \in DOMAIN UpperCase : UpperCase[k] = chars[i]
     THEN LowerCase[CHOOSE k \in DOMAIN UpperCase : UpperCase[k] = chars[i]]
     ELSE chars[i]]

\* str.strip(): leading and trailing whitespace removed
RECURSIVE Strip(_)
Strip(chars) ==
  IF chars = <<>> THEN <<>>
  ELSE IF Head(chars) \in Whitespace THEN Strip(Tail(chars))
  ELSE IF chars[Len(chars)] \in Whitespace THEN Strip(SubSeq(chars, 1, Len(chars) - 1))
  ELSE chars

\* str.split(): the maximal runs of non-whitespace characters
RECURSIVE SplitWords(_, _)
SplitWords(chars, word) ==
  IF chars = <<>> THEN (IF word = <<>> THEN <<>> ELSE <<word>>)
  ELSE IF Head(chars) \in Whitespace
       THEN (IF word = <<>> THEN <<>> ELSE <<word>>) \o SplitWords(Tail(chars), <<>>)
       ELSE SplitWords(Tail(chars), Append(word, Head(chars)))

\* variant of JoinDash: the parts after the first are dropped
JoinDash_FirstOnly(parts) == IF parts = <<>> THEN <<>> ELSE parts[1]

\* '-'.join(parts)
RECURSIVE JoinDash(_)
JoinDash(parts) ==
  IF parts = <<>> THEN <<>>
  ELSE IF Len(parts) = 1 THEN parts[1]
  ELSE parts[1] \o <<"-">> \o JoinDash(Tail(parts))

\* convert_name_to_url_format, on the characters of the name
convert_name_to_url_format(name) ==
  LET url_name == Strip(Lower(name))
  IN JoinDash(SelectSeq(SplitWords(url_name, <<>>), LAMBDA part : part # <<>>))

\* [email.strip() for email in attendees_str.split(',') if email.strip()]
ParseEmails(attendees_str) ==
  LET kept == SelectSeq(attendees_str, LAMBDA part : part.text # "")
  IN [k \in DOMAIN kept |-> kept[k].text]

(* ------------------------------ records ------------------------------- *)

\* variant of Summary: the company first
Summary_CompanyFirst(mentor, company) == <<company, " <> ", mentor>>

\* f"{mentor} <> {company}"
Summary(mentor, company) == <<mentor, " <> ", company>>

\* f"{mentor}, {details['role']}, {details['company']}: {details['bio']}"
Description(mentor, details) ==
  <<mentor, ", ", details.role, ", ", details.company, ": ", details.bio>>

\* f"https://techstars-ldn-mentor-lookbook.lovable.app/mentor/{mentor_url_name}"
Location(mentor) == <<LookbookUrl, convert_name_to_url_format(NameChars(mentor))>>

\* the meeting entry of a real pairing
Meeting(mentor, company, slot, date, details, attendees) ==
  [summary |-> Summary(mentor, company),
   start_time |-> slot.start, end_time |-> slot.end,
   company |-> company, mentor |-> mentor,
   description |-> Description(mentor, details),
   attendees |-> attendees,
   location |-> Location(mentor),
   date |-> date]

\* the BREAK event of a mentor; note is "" for the mentor who skips the slot
\* and " (all companies already met)" for one who has met every free company
BreakMeeting(mentor, slot, date, note) ==
  [summary |-> Summary(mentor, BREAK),
   start_time |-> slot.start, end_time |-> slot.end,
   company |-> BREAK, mentor |-> mentor,
   description |-> <<"Break time for ", mentor, note>>,
   attendees |-> EmptyString,
   location |-> <<>>,
   date |-> date]

(* ------------------------------ inputs -------------------------------- *)

MentorLists ==
  SeqsUpTo(DupNames, MaxRecords) \cup {Prefix(AllNames, n) : n \in 0..MaxRoster}

\* records without a 'Date' or without a 'Name'
IncompleteRecords ==
  {[date |-> NoField, name |-> AllNames[1]], [date |-> FirstDate, name |-> NoField]}

\* short lists of any records: names repeat, dates mix, fields are missing
FreeRecordLists ==
  SeqsUpTo([date : Dates, name : DupNames] \cup IncompleteRecords, MaxRecords)

\* one date's roster of pairwise distinct mentors
RosterRecordLists ==
  {[i \in 1..n |-> [date |-> FirstDate, name |-> AllNames[i]]] : n \in 0..MaxRoster}

CompanyLists == {Prefix(AllCompanies, c) : c \in 0..MaxCompanies}

\* the Role, Company and Bio of the record at position i of the input: every
\* record has values of its own, and the positions take turns in lacking one
FieldsAt(i) ==
  [role    |-> IF i % 4 = 2 THEN NoField ELSE "role" \o ToString(i),
   company |-> IF i % 4 = 3 THEN NoField ELSE "org" \o ToString(i),
   bio     |-> IF i % 4 = 0 THEN NoField ELSE "bio" \o ToString(i)]

\* a list of (Date, Name) records with the other fields
WithFields(list) ==
  [i \in DOMAIN list |->
     [date |-> list[i].date, name |-> list[i].name, role |-> FieldsAt(i).role,
      company |-> FieldsAt(i).company, bio |-> FieldsAt(i).bio]]

\* src/config/refresh_mentors.py writes fields.get(.., '') to mentors.csv and
\* pandas.read_csv reads an empty cell back as NaN
CsvCell(value) == IF value = NoField \/ value = EmptyText THEN NaN ELSE value

\* the rows of mentors.csv for a list of mentor names
MentorRows(names) ==
  [i \in DOMAIN names |->
     [name |-> names[i], role |-> CsvCell(FieldsAt(i).role),
      company |-> CsvCell(FieldsAt(i).company), bio |-> CsvCell(FieldsAt(i).bio)]]

\* the companies that may be missing from the directory
UnlistedChoices == {{}, {AllCompanies[2]}}
\* the company the directory of the free record lists leaves out
UnlistedCompanies == {AllCompanies[2]}

\* the directory: company -> e-mail string, for the listed companies
Directory(unlisted) == [c \in Range(AllCompanies) \ unlisted |-> EmailsOf(c)]

\* the company lists tried with the short record lists
ShortCompanyLists == {Prefix(AllCompanies, c) : c \in 0..Min(MaxRecords, MaxCompanies)}

(* ------------------------------- state -------------------------------- *)

VARIABLES
  variant,              \* "rotation" or "avoid"
  pc,                   \* "records", "dates", "slots", "mentors", "convert", "pairs", "done", "raised"
  error,                \* the exception raised, "" if none
  records,              \* avoid: the input records (Date, Name, Role, Company, Bio)
  companies_with_emails,\* the directory (rotation: the companies that have 'emails')
  mentor_details,       \* mentor name -> role, company, bio
  companies,            \* the company list (rotation: list(companies.keys()))
  target_date,          \* rotation: the date scheduled
  slot_config,          \* rotation: time_slots as loaded, HH:MM pairs
  rec_index,            \* avoid: next record to group (1-based)
  date_groups,          \* avoid: date -> mentor names, in insertion order
  date_index,           \* avoid: position in date_groups.items() (1-based)
  mentors,              \* mentors of the date being scheduled
  time_slots,           \* slots of the date, with ISO timestamps
  slot_index,           \* enumerate(time_slots) index, 0-based
  mentor_index,         \* position in the mentor loop, 0-based
  date_companies,       \* avoid: company list as rotated so far
  daily_meetings_held,  \* avoid: (mentor, company) pairs of the date
  mentor_to_companies,  \* avoid: mentor -> companies met on the date
  available_mentors,    \* avoid: mentors still unplaced in the slot
  loop_mentors,         \* avoid: the copy available_mentors[:] iterated
  available_companies,  \* avoid: companies still free in the slot
  temp_meetings,        \* avoid: pairings of the slot
  schedule,             \* the output list
  params,               \* generator: the arguments of generate_meeting_times
  meetings,             \* generator: the list generate_meeting_times returns
  name_arg,             \* slug: the argument of convert_name_to_url_format
  url_name,             \* slug: what convert_name_to_url_format(name) returns
  url_again,            \* slug: what the function returns for url_name
  args,                 \* options: the command line of src/src/app.py (date, cache)
  refresh_calls,        \* options: the arguments of the calls of refresh_mentors
  selected_date,        \* options: what get_target_date_and_options returns
  airtable_records,     \* filter: the records handed to convert_records_to_dataframe
  filter_date,          \* filter: its filter_date argument, "" for None
  mentors_data,         \* filter: the rows it returns
  date_events,          \* upload: the events of the selected date
  calendar,             \* upload: the events of the Google calendar
  created_events,       \* upload: (i, summary) of the events created in this run
  failed_events,        \* upload: (i, summary) of the events that failed in this run
  event_index,          \* upload: enumerate(date_events.iterrows()) index, 0-based
  upload_run            \* upload: which run of add_to_gcal.py this is

vars ==
  <<variant, pc, error, records, companies_with_emails, mentor_details, companies,
    target_date, slot_config, rec_index, date_groups, date_index, mentors, time_slots, slot_index, mentor_index,
    date_companies, daily_meetings_held, mentor_to_companies, available_mentors,
    loop_mentors, available_companies, temp_meetings, schedule, params, meetings,
    name_arg, url_name, url_again, args, refresh_calls, selected_date,
    airtable_records, filter_date, mentors_data, date_events, calendar,
    created_events, failed_events, event_index, upload_run>>

inputs ==
  <<variant, records, companies_with_emails, companies, target_date, slot_config, params,
    name_arg, args, airtable_records, filter_date, date_events>>

\* the arguments but the company list
other_inputs ==
  <<variant, records, companies_with_emails, target_date, slot_config, params, name_arg,
    args, airtable_records, filter_date, date_events>>

\* the state of the runs of the other functions
slug_vars == <<url_name, url_again>>
options_vars == <<refresh_calls, selected_date>>
filter_vars == <<mentors_data>>
upload_vars == <<calendar, created_events, failed_events, event_index, upload_run>>
tool_vars == <<slug_vars, options_vars, filter_vars, upload_vars>>

avoid_slot_vars ==
  <<date_companies, daily_meetings_held, mentor_to_companies, available_mentors,
    loop_mentors, available_companies, temp_meetings>>

\* the state of a run of create_schedule or generate_meeting_times
scheduler_vars ==
  <<mentor_details, rec_index, date_groups, date_index, mentors, time_slots, slot_index,
    mentor_index, avoid_slot_vars, schedule, meetings>>

num_companies == Len(companies)
num_mentors == Len(mentors)

(* ------------------------------- Init --------------------------------- *)

\* src/src/app.py load_mentors, lines 114-122: the details of the rows, the
\* later row of a name replacing the earlier
LoadedDetails(rows) ==
  [n \in {rows[i].name : i \in DOMAIN rows} |->
     LET last == CHOOSE i \in DOMAIN rows :
                   rows[i].name = n /\ \A j \in DOMAIN rows : rows[j].name = n => j <= i
     IN [role |-> rows[last].role, company |-> rows[last].company, bio |-> rows[last].bio]]

InitCommon ==
  /\ error = ""
  /\ rec_index = 1
  /\ date_groups = <<>>
  /\ date_index = 1
  /\ slot_index = 0
  /\ mentor_index = 0
  /\ date_companies = <<>>
  /\ daily_meetings_held = {}
  /\ mentor_to_companies = <<>>
  /\ available_mentors = <<>>
  /\ loop_mentors = <<>>
  /\ available_companies = <<>>
  /\ temp_meetings = <<>>
  /\ schedule = <<>>
  /\ time_slots = <<>>
  /\ meetings = <<>>

InitAvoid ==
  /\ variant = "avoid"
  /\ params = NoParams
  /\ \/ /\ records \in {WithFields(l) : l \in FreeRecordLists}
        /\ companies \in ShortCompanyLists
        /\ companies_with_emails = Directory(UnlistedCompanies)
     \/ /\ records \in {WithFields(l) : l \in RosterRecordLists}
        /\ companies \in CompanyLists
        /\ \E unlisted \in UnlistedChoices : companies_with_emails = Directory(unlisted)
  /\ mentor_details = <<>>
  /\ target_date = ""
  /\ slot_config = <<>>
  /\ mentors = <<>>
  /\ pc = IF records = <<>> THEN "dates" ELSE "records"

InitRotation ==
  /\ variant = "rotation"
  /\ params = NoParams
  /\ records = <<>>
  /\ mentors \in MentorLists
  /\ mentor_details = LoadedDetails(MentorRows(mentors))
  /\ companies \in CompanyLists
  /\ target_date = FirstDate
  /\ slot_config \in {ConfiguredSlots(s) : s \in 0..MaxSlots} \cup BadSlotConfigs
  /\ \E unlisted \in UnlistedChoices : companies_with_emails = Directory(unlisted)
  /\ pc = "convert"

\* a call of generate_meeting_times
InitGenerator ==
  /\ variant = "generator"
  /\ params \in GeneratorParams
  /\ records = <<>> /\ mentors = <<>> /\ companies = <<>>
  /\ companies_with_emails = Directory({})
  /\ mentor_details = <<>>
  /\ target_date = ""
  /\ slot_config = <<>>
  /\ pc = "generate"

\* no call of create_schedule or generate_meeting_times
IdleScheduler ==
  /\ params = NoParams
  /\ records = <<>> /\ mentors = <<>> /\ companies = <<>>
  /\ companies_with_emails = Directory({})
  /\ mentor_details = <<>>
  /\ target_date = ""
  /\ slot_config = <<>>

\* no call of convert_name_to_url_format on its own
IdleSlug == name_arg = <<>> /\ url_name = <<>> /\ url_again = <<>>

\* a call of convert_name_to_url_format
InitSlug ==
  /\ variant = "slug"
  /\ name_arg \in Names
  /\ url_name = <<>> /\ url_again = <<>>
  /\ pc = "slug"

\* no call of get_target_date_and_options
IdleOptions == args = NoArgs /\ refresh_calls = <<>> /\ selected_date = ""

\* a call of get_target_date_and_options
InitOptions ==
  /\ variant = "options"
  /\ args \in CommandLines
  /\ refresh_calls = <<>> /\ selected_date = ""
  /\ pc = "args"

\* no call of convert_records_to_dataframe
IdleFilter == airtable_records = <<>> /\ filter_date = "" /\ mentors_data = <<>>

\* the status convert_records_to_dataframe keeps
BookedStatus == "Booked - March 2025"

\* the Name, Status and Date fields an Airtable record can have
AirtableKinds ==
  [name : {NoField, "Ann"}, status : {NoField, BookedStatus, "Declined"},
   date : {NoField} \cup Dates]

\* the record of kind k at position i, with its Role, Company and Bio
AirtableRecord(k, i) ==
  [name |-> k.name, status |-> k.status, date |-> k.date, role |-> FieldsAt(i).role,
   company |-> FieldsAt(i).company, bio |-> FieldsAt(i).bio]

\* the record lists convert_records_to_dataframe is given
AirtableRecordLists ==
  {[i \in DOMAIN ks |-> AirtableRecord(ks[i], i)] :
     ks \in SeqsUpTo(AirtableKinds, MaxAirtableRecords)}

\* a call of convert_records_to_dataframe(records, filter_date)
InitFilter ==
  /\ variant = "filter"
  /\ airtable_records \in AirtableRecordLists
  /\ filter_date \in {""} \cup Dates
  /\ mentors_data = <<>>
  /\ pc = "filter"

\* no run of add_to_gcal.py
IdleUpload ==
  /\ date_events = <<>> /\ calendar = <<>>
  /\ created_events = <<>> /\ failed_events = <<>>
  /\ event_index = 0 /\ upload_run = 1

\* rows of meeting_schedule.csv: two meetings and a second start of one
EventPool ==
  {[summary |-> "Ann <> Alethica", start_time |-> "2025-03-10T09:00:00"],
   [summary |-> "Ann <> Alethica", start_time |-> "2025-03-10T09:20:00"],
   [summary |-> "Bob <> BREAK", start_time |-> "2025-03-10T09:00:00"]}

\* a run of add_to_gcal.py on the events of the selected date; the calendar
\* is empty before the first run
InitUpload ==
  /\ variant = "upload"
  /\ date_events \in SeqsUpTo(EventPool, MaxEvents)
  /\ calendar = <<>>
  /\ created_events = <<>> /\ failed_events = <<>>
  /\ event_index = 0 /\ upload_run = 1
  /\ pc = "begin"

Init ==
  /\ InitCommon
  /\ \/ /\ InitAvoid \/ InitRotation \/ InitGenerator
        /\ IdleSlug /\ IdleOptions /\ IdleFilter /\ IdleUpload
     \/ IdleScheduler /\ InitSlug /\ IdleOptions /\ IdleFilter /\ IdleUpload
     \/ IdleScheduler /\ IdleSlug /\ InitOptions /\ IdleFilter /\ IdleUpload
     \/ IdleScheduler /\ IdleSlug /\ IdleOptions /\ InitFilter /\ IdleUpload
     \/ IdleScheduler /\ IdleSlug /\ IdleOptions /\ IdleFilter /\ InitUpload

(* -------------------- avoid-repeat variant: src/app.py ---------------- *)

\* lines 99-119: one record joins the group of its date
DateGroupsAfter(groups, fields) ==
  LET known == \E k \in DOMAIN groups : groups[k].date = fields.date
      groups0 == IF known THEN groups
                 ELSE Append(groups, [date |-> fields.date, mentors |-> <<>>])
  IN [k \in DOMAIN groups0 |->
        IF groups0[k].date = fields.date
        THEN [groups0[k] EXCEPT !.mentors = Append(@, fields.name)]
        ELSE groups0[k]]

\* fields.get(key, default)
GetField(value, default) == IF value = NoField THEN default ELSE value

\* lines 107-116: the details of the record replace those stored for the name
DetailsAfter(details, fields) ==
  [n \in DOMAIN details \cup {fields.name} |->
     IF n = fields.name
     THEN [role |-> GetField(fields.role, DefaultRole),
           company |-> GetField(fields.company, EmptyText),
           bio |-> GetField(fields.bio, EmptyText)]
     ELSE details[n]]

\* line 101: 'Date' in fields and 'Name' in fields
HasDateAndName(fields) == fields.date # NoField /\ fields.name # NoField

GroupRecord ==
  /\ pc = "records"
  /\ date_groups' = IF HasDateAndName(records[rec_index])
                    THEN DateGroupsAfter(date_groups, records[rec_index])
                    ELSE date_groups
  /\ mentor_details' = IF HasDateAndName(records[rec_index])
                       THEN DetailsAfter(mentor_details, records[rec_index])
                       ELSE mentor_details
  /\ rec_index' = rec_index + 1
  /\ pc' = IF rec_index = Len(records) THEN "dates" ELSE "records"
  /\ UNCHANGED <<inputs, tool_vars, meetings, error, date_index, mentors, time_slots, slot_index,
                 mentor_index, avoid_slot_vars, schedule>>

\* the date of the iteration of "for date, mentors in date_groups.items()"
date == date_groups[date_index].date

\* lines 122-136: the head of one date's iteration
BeginDate ==
  /\ pc = "dates"
  /\ date_index <= Len(date_groups)
  /\ mentors' = date_groups[date_index].mentors
  /\ time_slots' = generate_time_slots(date)
  /\ date_companies' = companies
  /\ daily_meetings_held' = {}
  /\ mentor_to_companies' = [m \in Range(mentors') |-> {}]
  /\ slot_index' = 0
  /\ pc' = IF Len(time_slots') = 0 THEN "dates" ELSE "slots"
  /\ date_index' = IF Len(time_slots') = 0 THEN date_index + 1 ELSE date_index
  /\ UNCHANGED <<inputs, tool_vars, meetings, mentor_details, error, rec_index, date_groups, mentor_index,
                 available_mentors, loop_mentors, available_companies,
                 temp_meetings, schedule>>

\* variant of MentorToSkip: the first mentor sits out every slot
MentorToSkip_First(ms, i) == ms[1]

\* line 148: the mentor who sits the slot out when mentors outnumber companies
MentorToSkip(ms, i) == ms[(i % Len(ms)) + 1]

\* variant of AvailableWithout: the skipping mentor is left in the list
AvailableWithout_KeepAll(all_mentors_in_slot, mentor_to_skip) == all_mentors_in_slot

\* line 167: the mentors of the slot without the one who skips
AvailableWithout(all_mentors_in_slot, mentor_to_skip) ==
  SelectSeq(all_mentors_in_slot, LAMBDA m : m # mentor_to_skip)

\* lines 139-176: the head of one slot's iteration
BeginSlot ==
  /\ pc = "slots"
  /\ LET slot == time_slots[slot_index + 1]
         mentor_to_skip == MentorToSkip(mentors, slot_index)
     IN IF num_mentors > num_companies
        THEN /\ schedule' = Append(schedule, BreakMeeting(mentor_to_skip, slot, date, ""))
             /\ available_mentors' = AvailableWithout(mentors, mentor_to_skip)
        ELSE /\ schedule' = schedule
             /\ available_mentors' = mentors
  /\ loop_mentors' = available_mentors'
  /\ mentor_index' = 0
  /\ available_companies' = date_companies
  /\ temp_meetings' = <<>>
  /\ pc' = "mentors"
  /\ UNCHANGED <<inputs, tool_vars, meetings, mentor_details, error, rec_index, date_groups, date_index, mentors,
                 time_slots, slot_index, date_companies, daily_meetings_held,
                 mentor_to_companies>>

\* variant of UnmetCompanies: the companies already met are not left out
UnmetCompanies_IgnoreMet(avail, met) == avail

\* line 181: the free companies the mentor has not met on this date
UnmetCompanies(avail, met) == SelectSeq(avail, LAMBDA c : c \notin met)

\* variant of CompaniesAfterRemove: the removal reaches the caller's list
CompaniesAfterRemove_Shared(caller_list, company) == RemoveFirst(caller_list, company)

\* lines 129, 173, 189: available_companies.remove(company) acts on
\* date_companies.copy(), and date_companies is companies.copy(): the list of
\* the caller keeps its elements
CompaniesAfterRemove(caller_list, company) == caller_list

\* lines 179-206: one mentor of the slot is matched or given a BREAK
MatchMentor ==
  /\ pc = "mentors"
  /\ mentor_index < Len(loop_mentors)
  /\ LET mentor == loop_mentors[mentor_index + 1]
         slot == time_slots[slot_index + 1]
         unmet_companies == UnmetCompanies(available_companies, mentor_to_companies[mentor])
         company == unmet_companies[1]
     IN IF unmet_companies # <<>>
        THEN /\ temp_meetings' = Append(temp_meetings, <<mentor, company>>)
             /\ mentor_to_companies' =
                  [mentor_to_companies EXCEPT ![mentor] = @ \cup {company}]
             /\ daily_meetings_held' = daily_meetings_held \cup {<<mentor, company>>}
             /\ available_companies' = RemoveFirst(available_companies, company)
             /\ available_mentors' = RemoveFirst(available_mentors, mentor)
             /\ companies' = CompaniesAfterRemove(companies, company)
             /\ schedule' = schedule
        ELSE /\ schedule' = Append(schedule, BreakMeeting(mentor, slot, date, " (all companies already met)"))
             /\ available_mentors' = RemoveFirst(available_mentors, mentor)
             /\ UNCHANGED <<temp_meetings, mentor_to_companies, daily_meetings_held,
                            available_companies, companies>>
  /\ mentor_index' = mentor_index + 1
  /\ UNCHANGED <<other_inputs, tool_vars, meetings, mentor_details, error, pc, rec_index, date_groups, date_index, mentors,
                 time_slots, slot_index, date_companies, loop_mentors>>

\* variant of AttendeesString: the e-mails of the company, listed or not
AttendeesString_Any(company) == EmailsOf(company)

\* line 215: companies_with_emails.get(company, '')
AttendeesString(company) ==
  IF company \in DOMAIN companies_with_emails
  THEN companies_with_emails[company] ELSE EmptyString

\* variant of SlotMeetings: only the first pairing of the slot gets its entry
SlotMeetings_FirstOnly(pairs, slot, d) ==
  [k \in 1..Min(Len(pairs), 1) |->
     Meeting(pairs[k][1], pairs[k][2], slot, d, mentor_details[pairs[k][1]],
             AttendeesString(pairs[k][2]))]

\* lines 209-234: the meeting entries of the slot's pairings, in pairing order
SlotMeetings(pairs, slot, d) ==
  [k \in 1..Len(pairs) |->
     Meeting(pairs[k][1], pairs[k][2], slot, d, mentor_details[pairs[k][1]],
             AttendeesString(pairs[k][2]))]

\* variant of RotateCompanies: the list is turned to the right
RotateCompanies_Right(dc) == <<dc[Len(dc)]>> \o SubSeq(dc, 1, Len(dc) - 1)

\* variant of RotateCompanies: the list is left as it is
RotateCompanies_Not(dc) == dc

\* line 237: date_companies[1:] + [date_companies[0]]
RotateCompanies(dc) == Tail(dc) \o <<Head(dc)>>

\* lines 209-237: the slot's meetings are appended and the companies rotated
EmitMeetings ==
  /\ pc = "mentors"
  /\ mentor_index >= Len(loop_mentors)
  /\ schedule' = schedule \o SlotMeetings(temp_meetings, time_slots[slot_index + 1], date)
  /\ IF date_companies = <<>>
     THEN \* date_companies[0] of an empty list
          /\ pc' = "raised"
          /\ error' = "IndexError"
          /\ UNCHANGED <<date_companies, slot_index, date_index>>
     ELSE /\ date_companies' = RotateCompanies(date_companies)
          /\ slot_index' = slot_index + 1
          /\ pc' = IF slot_index + 1 < Len(time_slots) THEN "slots" ELSE "dates"
          /\ date_index' = IF slot_index + 1 < Len(time_slots)
                           THEN date_index ELSE date_index + 1
          /\ error' = error
  /\ UNCHANGED <<inputs, tool_vars, meetings, mentor_details, rec_index, date_groups, mentors, time_slots, mentor_index,
                 daily_meetings_held, mentor_to_companies, available_mentors,
                 loop_mentors, available_companies, temp_meetings>>

\* lines 239-264: counts and the duplicate check only log; the list is returned
ReturnAvoid ==
  /\ pc = "dates"
  /\ date_index > Len(date_groups)
  /\ pc' = "done"
  /\ UNCHANGED <<inputs, tool_vars, meetings, mentor_details, error, rec_index, date_groups, date_index, mentors,
                 time_slots, slot_index, mentor_index, avoid_slot_vars, schedule>>

(* ------------------ index-rotation variant: src/src/app.py ------------- *)

\* lines 274-282: the slots get the target date
ConvertSlots ==
  /\ pc = "convert"
  /\ IF \E k \in DOMAIN slot_config :
          ~ValidHM(slot_config[k].start) \/ ~ValidHM(slot_config[k].end)
     THEN \* datetime.strptime raises ValueError
          /\ pc' = "raised" /\ error' = "ValueError"
          /\ UNCHANGED time_slots
     ELSE /\ time_slots' = [k \in DOMAIN slot_config |->
                              [start |-> IsoDateTime(target_date, slot_config[k].start),
                               end   |-> IsoDateTime(target_date, slot_config[k].end)]]
          /\ pc' = "pairs"
          /\ UNCHANGED error
  /\ UNCHANGED <<inputs, tool_vars, meetings, mentor_details, rec_index, date_groups, date_index, mentors,
                 slot_index, mentor_index, avoid_slot_vars, schedule>>

\* variant of CompanyIndex: the slot index is left out of the sum
CompanyIndex_NoSlot(si, mi, n) == mi % n

\* variant of CompanyIndex: the mentor index is left out of the sum
CompanyIndex_NoMentor(si, mi, n) == si % n

\* lines 301-313: the e-mails of the company as a list, [] when the lookup fails
AttendeesList(company) ==
  IF company \in DOMAIN companies_with_emails
  THEN ParseEmails(companies_with_emails[company]) ELSE <<>>

\* line 293: company in round-robin fashion (0-based index)
CompanyIndex(si, mi, n) == (si + mi) % n

\* lines 291-332: one mentor of one slot
PairMentor ==
  /\ pc = "pairs"
  /\ slot_index < Len(time_slots)
  /\ mentor_index < num_mentors
  /\ IF num_companies = 0
     THEN \* modulo by zero
          /\ pc' = "raised"
          /\ error' = "ZeroDivisionError"
          /\ UNCHANGED <<schedule, slot_index, mentor_index>>
     ELSE LET mentor == mentors[mentor_index + 1]
              company == companies[CompanyIndex(slot_index, mentor_index, num_companies) + 1]
          IN /\ schedule' = Append(schedule,
                              Meeting(mentor, company, time_slots[slot_index + 1], target_date,
                                      mentor_details[mentor], AttendeesList(company)))
             /\ mentor_index' = IF mentor_index + 1 < num_mentors THEN mentor_index + 1 ELSE 0
             /\ slot_index' = IF mentor_index + 1 < num_mentors THEN slot_index ELSE slot_index + 1
             /\ UNCHANGED <<pc, error>>
  /\ UNCHANGED <<inputs, tool_vars, meetings, mentor_details, rec_index, date_groups, date_index, mentors, time_slots,
                 avoid_slot_vars>>

\* lines 334-337: the list is returned
ReturnRotation ==
  /\ pc = "pairs"
  /\ slot_index >= Len(time_slots) \/ num_mentors = 0
  /\ pc' = "done"
  /\ UNCHANGED <<inputs, tool_vars, meetings, mentor_details, error, rec_index, date_groups, date_index, mentors,
                 time_slots, slot_index, mentor_index, avoid_slot_vars, schedule>>

(* --------------------------- specification ---------------------------- *)

(* ------- the slot generator: src/config/configure_schedule.py --------- *)

\* lines 28-88: one call of generate_meeting_times
GenerateMeetingTimes ==
  /\ pc = "generate"
  /\ meetings' = generate_meeting_times(params)
  /\ pc' = "done"
  /\ UNCHANGED <<inputs, tool_vars, mentor_details, error, rec_index, date_groups, date_index, mentors,
                 time_slots, slot_index, mentor_index, avoid_slot_vars, schedule>>

(* ------------- convert_name_to_url_format: src/app.py 83-89 ----------- *)

\* one call of convert_name_to_url_format
ConvertName ==
  /\ pc = "slug"
  /\ url_name' = convert_name_to_url_format(name_arg)
  /\ pc' = "slugged"
  /\ UNCHANGED <<inputs, scheduler_vars, error, url_again, options_vars, filter_vars,
                 upload_vars>>

\* a second call, on the result of the first
ConvertAgain ==
  /\ pc = "slugged"
  /\ url_again' = convert_name_to_url_format(url_name)
  /\ pc' = "done"
  /\ UNCHANGED <<inputs, scheduler_vars, error, url_name, options_vars, filter_vars,
                 upload_vars>>

(* ------ get_target_date_and_options: src/src/app.py 153-253 ----------- *)

\* datetime.strptime(text, '%Y-%m-%d') succeeds
ValidDate(text) == text \in Dates

\* what reading the dates of mentors.csv can give: dates, none, an exception
ReadOutcomes == {"dates", "none", "exception"}

\* refresh_mentors(date) is called unless --cache is given
RefreshUnlessCached(calls, date_str) ==
  IF args.cache THEN calls ELSE Append(calls, date_str)

\* line 194: refresh_mentors() when mentors.csv holds no date
RefreshWhenNoDates(calls) == Append(calls, "")

\* lines 161-174: --date is given
CheckDateArgument ==
  /\ pc = "args"
  /\ IF args.date # "" /\ ValidDate(args.date)
     THEN /\ refresh_calls' = RefreshUnlessCached(refresh_calls, args.date)
          /\ selected_date' = args.date
          /\ pc' = "done"
     ELSE /\ pc' = "refresh"
          /\ UNCHANGED <<refresh_calls, selected_date>>
  /\ UNCHANGED <<inputs, scheduler_vars, error, slug_vars, filter_vars, upload_vars>>

\* lines 176-179: the full refresh before the dates are read
RefreshAll ==
  /\ pc = "refresh"
  /\ refresh_calls' = RefreshUnlessCached(refresh_calls, "")
  /\ pc' = "read"
  /\ UNCHANGED <<inputs, scheduler_vars, error, slug_vars, filter_vars, upload_vars,
                 selected_date>>

\* lines 182-196: the dates of mentors.csv are read
ReadDates ==
  /\ pc = "read"
  /\ \E outcome \in ReadOutcomes :
       CASE outcome = "dates" -> pc' = "select" /\ UNCHANGED refresh_calls
         [] outcome = "none" ->
              /\ refresh_calls' = RefreshWhenNoDates(refresh_calls)
              /\ pc' = "read_again"
         [] outcome = "exception" -> pc' = "read_error" /\ UNCHANGED refresh_calls
  /\ UNCHANGED <<inputs, scheduler_vars, error, slug_vars, filter_vars, upload_vars,
                 selected_date>>

\* lines 197-209: the dates are read again after the refresh; with none the
\* user types the date
ReadDatesAgain ==
  /\ pc = "read_again"
  /\ \E outcome \in ReadOutcomes :
       CASE outcome = "dates" -> pc' = "select" /\ UNCHANGED selected_date
         [] outcome = "none" ->
              \E typed \in DateArguments : selected_date' = typed /\ pc' = "done"
         [] outcome = "exception" -> pc' = "read_error" /\ UNCHANGED selected_date
  /\ UNCHANGED <<inputs, scheduler_vars, error, slug_vars, filter_vars, upload_vars,
                 refresh_calls>>

\* lines 211-236: the user picks one of the dates
SelectDate ==
  /\ pc = "select"
  /\ \E picked \in Dates :
       /\ selected_date' = picked
       /\ refresh_calls' = RefreshUnlessCached(refresh_calls, picked)
  /\ pc' = "done"
  /\ UNCHANGED <<inputs, scheduler_vars, error, slug_vars, filter_vars, upload_vars>>

\* lines 238-253: reading failed; the user may ask for a refresh and types
\* the date
HandleReadError ==
  /\ pc = "read_error"
  /\ \E wants_refresh \in BOOLEAN, typed \in DateArguments :
       LET asked == IF ~args.cache /\ wants_refresh
                    THEN Append(refresh_calls, "") ELSE refresh_calls
       IN /\ refresh_calls' = RefreshUnlessCached(asked, typed)
          /\ selected_date' = typed
  /\ pc' = "done"
  /\ UNCHANGED <<inputs, scheduler_vars, error, slug_vars, filter_vars, upload_vars>>

(* ------ convert_records_to_dataframe: src/config/refresh_mentors.py ---- *)

\* lines 98-102: the values of the date fields the record has
RecordDates(fields) == IF fields.date = NoField THEN <<>> ELSE <<fields.date>>

\* lines 89-107: the record is not skipped
KeptRecord(fields, date_str) ==
  /\ fields.name # NoField
  /\ GetField(fields.status, EmptyText) = BookedStatus
  /\ ~ /\ date_str # ""
       /\ RecordDates(fields) # <<>>
       /\ \A k \in DOMAIN RecordDates(fields) : RecordDates(fields)[k] # date_str

\* lines 109-116: the mentor entry of a record
MentorEntry(fields) ==
  [name    |-> GetField(fields.name, EmptyText),
   role    |-> GetField(fields.role, EmptyText),
   company |-> GetField(fields.company, EmptyText),
   bio     |-> GetField(fields.bio, EmptyText),
   dates   |-> IF RecordDates(fields) # <<>> THEN RecordDates(fields)[1] ELSE EmptyText]

\* lines 83-118: the entries of the records that are not skipped, in order
convert_records_to_dataframe(recs, date_str) ==
  LET kept == SelectSeq(recs, LAMBDA fields : KeptRecord(fields, date_str))
  IN [i \in DOMAIN kept |-> MentorEntry(kept[i])]

\* the call
ConvertRecords ==
  /\ pc = "filter"
  /\ mentors_data' = convert_records_to_dataframe(airtable_records, filter_date)
  /\ pc' = "filtered"
  /\ UNCHANGED <<inputs, scheduler_vars, error, slug_vars, options_vars, upload_vars>>

(* ------------- the calendar upload: src/add_to_gcal.py 60-227 ----------- *)

\* the text of the exception of a failed insert
InsertError == "HttpError 403"

\* lines 64-110: events().insert() adds the event to the calendar and gives
\* it an id; nothing is looked up before
InsertEvent(cal, event) ==
  Append(cal, [id |-> Len(cal) + 1, summary |-> event.summary,
               start_time |-> event.start_time])

\* line 110: the id of the event just inserted
InsertedId(cal) == cal[Len(cal)].id

\* variant of FailedAfter: the failure is not recorded
FailedAfter_Dropped(failed, i, event, message) == failed

\* line 202: created_events.append((i, event_id, summary))
CreatedAfter(created, i, event_id, event) == Append(created, <<i, event_id, event.summary>>)

\* lines 208-210: failed_events.append((i, summary, str(e)))
FailedAfter(failed, i, event, message) == Append(failed, <<i, event.summary, message>>)

\* lines 178-196: no event of the date ends the run; else the two lists start
\* empty
BeginUpload ==
  /\ pc = "begin"
  /\ created_events' = <<>>
  /\ failed_events' = <<>>
  /\ event_index' = 0
  /\ pc' = IF Len(date_events) = 0 THEN "done" ELSE "upload"
  /\ UNCHANGED <<inputs, scheduler_vars, error, slug_vars, options_vars, filter_vars,
                 calendar, upload_run>>

\* lines 199-210: one pass of the loop; the insert succeeds or raises
UploadEvent ==
  /\ pc = "upload"
  /\ event_index < Len(date_events)
  /\ LET event == date_events[event_index + 1]
     IN \E raised \in BOOLEAN :
          IF raised
          THEN /\ failed_events' =
                    FailedAfter(failed_events, event_index, event, InsertError)
               /\ UNCHANGED <<calendar, created_events>>
          ELSE /\ calendar' = InsertEvent(calendar, event)
               /\ created_events' =
                    CreatedAfter(created_events, event_index, InsertedId(calendar'), event)
               /\ UNCHANGED failed_events
  /\ event_index' = event_index + 1
  /\ UNCHANGED <<inputs, scheduler_vars, error, slug_vars, options_vars, filter_vars,
                 upload_run, pc>>

\* lines 212-219: the loop is over
FinishUpload ==
  /\ pc = "upload"
  /\ event_index = Len(date_events)
  /\ pc' = "uploaded"
  /\ UNCHANGED <<inputs, scheduler_vars, error, slug_vars, options_vars, filter_vars,
                 upload_vars>>

\* lines 226-227: the script is run once more for the same date
UploadAgain ==
  /\ pc = "uploaded"
  /\ upload_run = 1
  /\ upload_run' = 2
  /\ pc' = "begin"
  /\ UNCHANGED <<inputs, scheduler_vars, error, slug_vars, options_vars, filter_vars,
                 calendar, created_events, failed_events, event_index>>

Next ==
  \/ GroupRecord
  \/ BeginDate
  \/ BeginSlot
  \/ MatchMentor
  \/ EmitMeetings
  \/ ReturnAvoid
  \/ ConvertSlots
  \/ PairMentor
  \/ ReturnRotation
  \/ GenerateMeetingTimes
  \/ ConvertName
  \/ ConvertAgain
  \/ CheckDateArgument
  \/ RefreshAll
  \/ ReadDates
  \/ ReadDatesAgain
  \/ SelectDate
  \/ HandleReadError
  \/ ConvertRecords
  \/ BeginUpload
  \/ UploadEvent
  \/ FinishUpload
  \/ UploadAgain

Spec == Init /\ [][Next]_vars

(* ----------------------------- properties ----------------------------- *)

Returned == pc = "done"
Idx == DOMAIN schedule
Real(k) == schedule[k].company # BREAK

\* the mentors handed in for date d, in input order
RosterOf(d) ==
  IF variant = "avoid"
  THEN LET rs == SelectSeq(records, LAMBDA r : r.date = d /\ r.name # NoField)
       IN [k \in DOMAIN rs |-> rs[k].name]
  ELSE IF d = target_date THEN mentors ELSE <<>>

\* position of name a in roster ms (first occurrence)
PosIn(ms, a) == CHOOSE k \in DOMAIN ms : ms[k] = a /\ \A l \in 1..(k-1) : ms[l] # a

\* records of the schedule for date d
OnDate(d) == {k \in Idx : schedule[k].date = d}

\* C1: in the returned schedule no company is the company of two meetings
\* that start at the same time, in either variant.
C1_CompanyOncePerSlot ==
  Returned =>
    \A i, j \in Idx :
      (i # j /\ Real(i) /\ Real(j) /\ schedule[i].start_time = schedule[j].start_time)
        => schedule[i].company # schedule[j].company

\* the same statement for the avoid-repeat variant alone
AvoidCompanyOncePerSlot == variant = "avoid" => C1_CompanyOncePerSlot

\* C2: avoid-repeat variant: at every point of the run no (mentor, company)
\* pair is the subject of two non-BREAK records of one date.
C2_NoRepeatedPair ==
  variant = "avoid" =>
    \A i, j \in Idx :
      (i < j /\ Real(i) /\ Real(j) /\ schedule[i].date = schedule[j].date
         /\ schedule[i].mentor = schedule[j].mentor)
        => schedule[i].company # schedule[j].company

\* a finished avoid-repeat run with two or more companies in which a mentor of
\* an oversized roster met every company and then was given a BREAK
C2_Witness ==
  /\ variant = "avoid" /\ Returned /\ num_companies >= 2
  /\ \E d \in Dates :
       /\ Len(RosterOf(d)) > num_companies
       /\ \E k \in OnDate(d) :
            /\ ~Real(k)
            /\ \A b \in Range(companies) :
                 \E l \in OnDate(d) : l < k /\ schedule[l].mentor = schedule[k].mentor
                                       /\ schedule[l].company = b

\* C3: when the mentor names of a date are pairwise distinct, a mentor has at
\* most one record (meeting or BREAK) per slot of that date, in both variants.
C3_MentorOncePerSlot ==
  \A i, j \in Idx :
    (i < j /\ schedule[i].start_time = schedule[j].start_time
       /\ schedule[i].mentor = schedule[j].mentor)
      => ~Distinct(RosterOf(schedule[i].date))

\* a finished avoid-repeat run over distinct mentors who outnumber the
\* companies: one slot holds a BREAK record and a real meeting
C3_Witness ==
  /\ variant = "avoid" /\ Returned
  /\ \E d \in Dates :
       /\ Distinct(RosterOf(d)) /\ Len(RosterOf(d)) >= 3
       /\ Len(RosterOf(d)) > num_companies
       /\ \E i, j \in OnDate(d) :
            /\ schedule[i].start_time = schedule[j].start_time
            /\ ~Real(i) /\ Real(j)

\* C4: index rotation with N distinct mentors, N companies and N slots
\* returns N*N meetings in which every (mentor, company) pair occurs once.
C4_LatinSquare ==
  (variant = "rotation" /\ Returned /\ num_mentors >= 1 /\ Distinct(mentors)
     /\ num_companies = num_mentors /\ Len(time_slots) = num_mentors)
    => /\ Len(schedule) = num_mentors * num_mentors
       /\ \A a \in Range(mentors), b \in Range(companies) :
            Cardinality({k \in Idx : schedule[k].mentor = a /\ schedule[k].company = b}) = 1

\* a finished 3 x 3 x 3 index-rotation run
C4_Witness ==
  /\ variant = "rotation" /\ Returned /\ Distinct(mentors)
  /\ num_mentors = 3 /\ num_companies = 3 /\ Len(time_slots) = 3
  /\ Len(schedule) = 9

\* the reference rule: both lists padded with BREAK to N = max(m, c)
PadN == Max(num_mentors, num_companies)
PaddedCompanies == [k \in 1..PadN |-> IF k <= num_companies THEN companies[k] ELSE BREAK]

\* C5: index rotation pairs mentor M[j] in slot i with the padded company
\* C[(i + j) mod N], N = max(m, c), and emits no meeting when that is BREAK.
C5_PaddedRotation ==
  (variant = "rotation" /\ Returned /\ num_mentors >= 1 /\ num_companies >= 1
     /\ Distinct(mentors))
    => \A i \in 0..(Len(time_slots) - 1), j \in 0..(num_mentors - 1) :
         LET ref == PaddedCompanies[((i + j) % PadN) + 1]
             recs == {k \in Idx : /\ schedule[k].start_time = time_slots[i + 1].start
                                  /\ schedule[k].mentor = mentors[j + 1]}
         IN IF ref = BREAK THEN recs = {}
            ELSE Cardinality(recs) = 1 /\ \A k \in recs : schedule[k].company = ref

\* the same rule where no padding of the companies is needed (m <= c)
RotationMatchesRuleWhenCompaniesSuffice == num_mentors <= num_companies => C5_PaddedRotation

\* the record of slot i (0-based) and mentor position j (0-based), index rotation
RotRecord(i, j) == schedule[i * num_mentors + j + 1]

\* C6: index rotation with s > N = max(m, c) slots: the company of a mentor in
\* slot i >= N is the company of that mentor in slot i mod N.
C6_WrapAround ==
  (variant = "rotation" /\ Returned /\ num_mentors >= 1 /\ num_companies >= 1)
    => \A i \in PadN..(Len(time_slots) - 1), j \in 0..(num_mentors - 1) :
         RotRecord(i, j).company = RotRecord(i % PadN, j).company

\* C7: index rotation with m < c: every slot has exactly m meetings, with m
\* pairwise distinct companies, c - m companies stay without a meeting and
\* every mentor has a meeting.
C7_BalancedPadding ==
  (variant = "rotation" /\ Returned /\ num_mentors >= 1 /\ num_mentors < num_companies)
    => \A i \in 0..(Len(time_slots) - 1) :
         LET recs == {k \in Idx : schedule[k].start_time = time_slots[i + 1].start}
             used == {schedule[k].company : k \in recs}
         IN /\ Cardinality(recs) = num_mentors
            /\ Cardinality(used) = num_mentors
            /\ used \subseteq Range(companies)
            /\ Cardinality(Range(companies) \ used) = num_companies - num_mentors
            /\ \A j \in 0..(num_mentors - 1) :
                 /\ i * num_mentors + j + 1 \in recs
                 /\ RotRecord(i, j).mentor = mentors[j + 1]

\* a finished index-rotation run of 2 or more mentors, more companies, 2 or
\* more slots
C7_Witness ==
  /\ variant = "rotation" /\ Returned
  /\ num_mentors >= 2 /\ num_mentors < num_companies /\ Len(time_slots) >= 2
  /\ Len(schedule) = num_mentors * Len(time_slots)

\* C8: avoid-repeat variant, distinct mentors, c >= 1 and at least max(m, c)
\* slots: every mentor of the date has a non-BREAK meeting and every company
\* has a meeting on that date.
C8_NoEntityDropped ==
  (variant = "avoid" /\ Returned)
    => \A d \in Dates :
         LET ms == RosterOf(d)
         IN (/\ ms # <<>> /\ Distinct(ms) /\ num_companies >= 1
             /\ Len(time_ranges) >= Max(Len(ms), num_companies))
              => /\ \A a \in Range(ms) :
                      \E k \in OnDate(d) : Real(k) /\ schedule[k].mentor = a
                 /\ \A b \in Range(companies) :
                      \E k \in OnDate(d) : schedule[k].company = b

\* C9: the records of one date are non-decreasing in start time, and the
\* records of one slot, BREAK records included, are in roster order (rosters
\* of distinct names), in both variants.
C9_Ordering ==
  Returned =>
    \A d \in Dates :
      Distinct(RosterOf(d)) =>
        \A i, j \in OnDate(d) :
          i < j =>
            /\ schedule[i].start_time.minute <= schedule[j].start_time.minute
            /\ schedule[i].start_time = schedule[j].start_time
                 => PosIn(RosterOf(d), schedule[i].mentor)
                      < PosIn(RosterOf(d), schedule[j].mentor)

\* the same statement for the index-rotation variant alone
RotationOrdering == variant = "rotation" => C9_Ordering

\* C10: a run whose mentor count differs from its company count never ends
\* in an error, in either variant.
C10_NoErrorOnMismatch ==
  num_mentors # num_companies => pc # "raised"

(* ------------------- C11: the company a mentor is given ------------------ *)

\* 0-based index of the slot of record k among the slots of its date
SlotIndexOf(k) ==
  CHOOSE i \in 0..(Len(generate_time_slots(schedule[k].date)) - 1) :
    generate_time_slots(schedule[k].date)[i + 1].start = schedule[k].start_time

\* the company list turned left by n places
TurnedLeft(list, n) ==
  [i \in DOMAIN list |-> list[((i - 1 + n) % Len(list)) + 1]]

\* the companies of the real meetings, in the slot of record k, of the mentors
\* that come before the mentor of k in the roster
TakenBefore(k) ==
  LET d == schedule[k].date
  IN {schedule[l].company :
        l \in {l \in OnDate(d) :
                 /\ Real(l) /\ schedule[l].start_time = schedule[k].start_time
                 /\ PosIn(RosterOf(d), schedule[l].mentor)
                      < PosIn(RosterOf(d), schedule[k].mentor)}}

\* the companies the mentor of record k met in the earlier slots of the date
MetBefore(k) ==
  {schedule[l].company :
     l \in {l \in OnDate(schedule[k].date) :
              /\ Real(l) /\ schedule[l].mentor = schedule[k].mentor
              /\ schedule[l].start_time.minute < schedule[k].start_time.minute}}

\* the companies open to the mentor of record k, in the given order
Candidates(k, order) ==
  SelectSeq(order, LAMBDA c : c \notin TakenBefore(k) /\ c \notin MetBefore(k))

\* the mentor of record k is the one who skips the slot
IsSkipBreak(k) == ~Real(k) /\ schedule[k].description = <<"Break time for ", schedule[k].mentor, "">>

\* the rule of C11 with the companies searched in the given order per record
FirstCandidateRule(OrderFor(_)) ==
  (variant = "avoid" /\ Returned) =>
    \A k \in Idx :
      Distinct(RosterOf(schedule[k].date)) =>
        /\ Real(k) => /\ Candidates(k, OrderFor(k)) # <<>>
                      /\ schedule[k].company = Head(Candidates(k, OrderFor(k)))
        /\ (~Real(k) /\ ~IsSkipBreak(k)) => Candidates(k, OrderFor(k)) = <<>>

\* the order the search of slot i runs through
SlotOrder(k) == TurnedLeft(companies, SlotIndexOf(k))
OriginalOrder(k) == companies

\* C11 as stated: avoid-repeat: the company of a mentor's meeting is the
\* first, in the ORIGINAL order of the company list, of the companies not
\* taken by an earlier mentor in the slot and not yet met by the mentor on the
\* date; a mentor with no such company has a BREAK.
C11_FirstInOriginalOrder == FirstCandidateRule(OriginalOrder)

\* C11 amended: the same, with the company list searched in its order as
\* turned left by one place per slot that went before on the date.
C11_FirstInRotatedOrder == FirstCandidateRule(SlotOrder)

\* a finished run with a meeting whose company is not the first open company
\* of the original order, and with a BREAK of a mentor who met all the others
C11_Witness ==
  /\ variant = "avoid" /\ Returned
  /\ \E k \in Idx :
       /\ Distinct(RosterOf(schedule[k].date)) /\ Real(k)
       /\ schedule[k].company # Head(Candidates(k, companies))
  /\ \E k \in Idx :
       /\ Distinct(RosterOf(schedule[k].date))
       /\ ~Real(k) /\ ~IsSkipBreak(k)

(* ------------------ C13, C14: records, dates and names ------------------- *)

\* the greatest index of a non-empty set of indices
Last(S) == CHOOSE i \in S : \A j \in S : j <= i

\* the indices of the input records that are grouped under date d and name n
RecordsOf(d, n) ==
  {i \in DOMAIN records :
     HasDateAndName(records[i]) /\ records[i].date = d /\ records[i].name = n}

\* the details the grouping loop stores for input record i
StoredDetailsOf(i) == DetailsAfter(<<>>, records[i])[records[i].name]

\* C13: avoid-repeat: the records of a date depend on that date's mentor
\* records only: the description of every real meeting is made of the fields
\* of the last record that the meeting's date has for the mentor, whatever
\* the records of other dates say.
C13_DateIndependence ==
  (variant = "avoid" /\ Returned) =>
    \A k \in Idx :
      Real(k) =>
        LET own == RecordsOf(schedule[k].date, schedule[k].mentor)
        IN /\ own # {}
           /\ schedule[k].description
                = Description(schedule[k].mentor, StoredDetailsOf(Last(own)))

\* C14: avoid-repeat: of two records with one Date and one Name the later
\* gives the stored Role, Company and Bio, and the mentor is once in the
\* roster of the date: one record per slot.
C14_LastWriteWins ==
  (variant = "avoid" /\ Returned) =>
    /\ \A n \in DOMAIN mentor_details :
         mentor_details[n]
           = StoredDetailsOf(Last({i \in DOMAIN records :
                                    HasDateAndName(records[i]) /\ records[i].name = n}))
    /\ \A i, j \in Idx :
         (i < j /\ schedule[i].date = schedule[j].date
            /\ schedule[i].start_time = schedule[j].start_time)
           => schedule[i].mentor # schedule[j].mentor

(* ----------------- C18, C19, C20: the fields of a record ----------------- *)

\* the attendee value of a company without e-mails: '' or []
EmptyAttendees == IF variant = "avoid" THEN EmptyString ELSE <<>>

\* the record count of a finished run: one per slot and mentor
AllEmitted ==
  IF variant = "rotation"
  THEN Len(schedule) = Len(time_slots) * num_mentors
  ELSE \A d \in Dates :
         Distinct(RosterOf(d)) =>
           Cardinality(OnDate(d)) = Len(generate_time_slots(d)) * Len(RosterOf(d))

\* C18: a company without an entry in the directory still gets its meetings,
\* with an empty attendee value; no run is ended by the miss and a finished
\* run holds a record for every slot and mentor.
C18_LookupMissNotFatal ==
  /\ \A k \in Idx :
       (Real(k) /\ schedule[k].company \notin DOMAIN companies_with_emails)
         => schedule[k].attendees = EmptyAttendees
  /\ pc = "raised" => (num_companies = 0 \/ error = "ValueError")
  /\ Returned => AllEmitted

\* a finished run with a meeting of a company that has no entry and, after
\* it, a meeting of a company that has one
C18_Witness ==
  /\ Returned
  /\ \E k, l \in Idx :
       /\ k < l /\ Real(k) /\ Real(l)
       /\ schedule[k].company \notin DOMAIN companies_with_emails
       /\ schedule[l].company \in DOMAIN companies_with_emails
       /\ schedule[l].attendees # EmptyAttendees

\* the input fields behind the stored details of name n: the fields of the
\* last processed record (avoid) or row (rotation) of that name
SourceFields(n) ==
  IF variant = "avoid"
  THEN records[Last({i \in 1..(rec_index - 1) :
                      HasDateAndName(records[i]) /\ records[i].name = n})]
  ELSE FieldsAt(Last({i \in DOMAIN mentors : mentors[i] = n}))

\* C19: a mentor record without Role, Company or Bio is scheduled, and the
\* field is the empty string in the stored details and in the description.
C19_MissingFieldEmpty ==
  /\ \A n \in DOMAIN mentor_details :
       /\ SourceFields(n).role = NoField => mentor_details[n].role = EmptyText
       /\ SourceFields(n).company = NoField => mentor_details[n].company = EmptyText
       /\ SourceFields(n).bio = NoField => mentor_details[n].bio = EmptyText
  /\ \A k \in Idx :
       Real(k) => schedule[k].description
                    = Description(schedule[k].mentor, mentor_details[schedule[k].mentor])

\* the directory entry of a company, as the variant hands it on
EntryOf(company) ==
  IF company \notin DOMAIN companies_with_emails THEN EmptyAttendees
  ELSE IF variant = "avoid" THEN EmailsOf(company)
  ELSE LET parts == EmailsOf(company) IN [i \in DOMAIN parts |-> parts[i].text]

IsRealMeeting(r) ==
  /\ r.company \in Range(companies)
  /\ r.summary = <<r.mentor, " <> ", r.company>>
  /\ r.attendees = EntryOf(r.company)

IsBreakPlaceholder(r) ==
  /\ variant = "avoid"
  /\ r.company = BREAK
  /\ r.attendees = EmptyString
  /\ r.location = <<>>

\* C20: every record of the schedule is a real meeting (company of the list,
\* summary "{mentor} <> {company}", attendees the company's directory entry)
\* or, in the avoid-repeat variant, a BREAK placeholder (company BREAK,
\* attendees and location empty), and never both.
C20_TwoShapes ==
  \A k \in Idx : IsRealMeeting(schedule[k]) # IsBreakPlaceholder(schedule[k])

\* a finished avoid-repeat run that holds both shapes, and a finished
\* rotation run with more mentors than companies
C20_Witness ==
  /\ Returned
  /\ \/ /\ variant = "avoid"
        /\ \E k, l \in Idx : IsRealMeeting(schedule[k]) /\ IsBreakPlaceholder(schedule[l])
     \/ /\ variant = "rotation" /\ num_mentors > num_companies
        /\ \E k \in Idx : IsRealMeeting(schedule[k])

(* ------------------- C15, C16, C17: the slot generator ------------------- *)

\* a finished call of generate_meeting_times with a start time that parses
Generated == variant = "generator" /\ Returned /\ ValidHM(params.first_mtg_start)

MinutesPerDay == 24 * 60

\* minutes from time of day a to time of day b, walking forward
Forward(a, b) == (ParseHM(b) + MinutesPerDay - ParseHM(a)) % MinutesPerDay

\* C15: the slots generate_meeting_times returns are ordered and do not
\* overlap as times of day: start < end in every slot and the end of a slot
\* is not after the start of the next, also when the walk passes midnight.
C15_OrderedNonOverlapping ==
  (Generated /\ params.num_meetings >= 1) =>
    /\ \A k \in DOMAIN meetings : ParseHM(meetings[k].start) < ParseHM(meetings[k].end)
    /\ \A k \in 1..(Len(meetings) - 1) :
         ParseHM(meetings[k].end) <= ParseHM(meetings[k + 1].start)

\* the gap the walk leaves after meeting number k of num_meetings
GapAfter(k) ==
  (IF params.has_breaks THEN params.break_length ELSE 0)
    + (IF params.has_lunch /\ k = params.num_meetings \div 2 THEN params.lunch_length ELSE 0)

\* the walk of C16, for calls of at least least_count meetings
WalkRule(least_count) ==
  (Generated /\ params.num_meetings >= least_count) =>
    /\ Len(meetings) = params.num_meetings
    /\ meetings[1].start = params.first_mtg_start
    /\ \A k \in DOMAIN meetings :
         Forward(meetings[k].start, meetings[k].end) = params.mtg_length
    /\ \A k \in 1..(Len(meetings) - 1) :
         Forward(meetings[k].end, meetings[k + 1].start) = GapAfter(k)
    /\ params.has_lunch =>
         Cardinality({k \in 1..(Len(meetings) - 1) : k = params.num_meetings \div 2}) = 1

\* C16 as stated: every slot lasts mtg_length, the gap between slots is
\* break_length with has_breaks and 0 without, and with has_lunch exactly one
\* gap, the one after meeting num_meetings // 2, is longer by lunch_length:
\* for every num_meetings >= 1.
C16_WalkFromOne == WalkRule(1)

\* C16 amended: the same for every num_meetings >= 2, times taken modulo one
\* day; a call for one meeting returns one slot and has no gap to lengthen.
C16_WalkFromTwo ==
  /\ WalkRule(2)
  /\ (Generated /\ params.num_meetings = 1) =>
       /\ Len(meetings) = 1
       /\ Forward(meetings[1].start, meetings[1].end) = params.mtg_length

\* a finished call with breaks and a lunch of positive length after the
\* second of four meetings
C16_Witness ==
  /\ Generated /\ params.num_meetings = 4 /\ Len(meetings) = 4
  /\ params.has_breaks /\ params.break_length > 0
  /\ params.has_lunch /\ params.lunch_length > 0
  /\ Forward(meetings[2].end, meetings[3].start) = params.break_length + params.lunch_length
  /\ Forward(meetings[1].end, meetings[2].start) = params.break_length

\* C17: a configuration error ends the run with a failure and no meeting:
\* a slot time that does not parse makes the index-rotation create_schedule
\* raise with an empty schedule, and a start time that does not parse makes
\* generate_meeting_times fail instead of returning a list.
C17_ConfigErrorAborts ==
  /\ (variant = "rotation" /\ slot_config \in BadSlotConfigs /\ pc # "convert")
       => (pc = "raised" /\ error = "ValueError" /\ schedule = <<>>)
  /\ (variant = "generator" /\ ~ValidHM(params.first_mtg_start) /\ pc # "generate")
       => pc = "raised"

\* the half of C17 that holds: the index-rotation create_schedule raises
\* ValueError before any meeting is appended
RotationRaisesOnBadSlotTime ==
  (variant = "rotation" /\ slot_config \in BadSlotConfigs /\ pc # "convert")
    => (pc = "raised" /\ error = "ValueError" /\ schedule = <<>>)

(* ------------------------- C21: the URL name ----------------------------- *)

\* a call of convert_name_to_url_format has returned
Slugged == variant = "slug" /\ pc \in {"slugged", "done"}

\* str.isupper() of a letter
IsUpperCase(ch) == (\E k \in DOMAIN UpperCase : UpperCase[k] = ch) \/ ch = UncasedCapital

\* the maximal runs without a dash, an empty run between two dashes included
RECURSIVE DashParts(_, _)
DashParts(chars, part) ==
  IF chars = <<>> THEN <<part>>
  ELSE IF Head(chars) = "-" THEN <<part>> \o DashParts(Tail(chars), <<>>)
  ELSE DashParts(Tail(chars), Append(part, Head(chars)))

\* the words of a name, in lower case
LowerWords(chars) ==
  LET words == SplitWords(chars, <<>>) IN [k \in DOMAIN words |-> Lower(words[k])]

\* the shape of a URL name, with the given test for a letter left in capitals
SlugShape(IsCapital(_)) ==
  Slugged =>
    /\ \A i \in DOMAIN url_name : url_name[i] \notin Whitespace /\ ~IsCapital(url_name[i])
    /\ url_name # <<>> => (Head(url_name) # "-" /\ url_name[Len(url_name)] # "-")
    /\ \A i \in 1..(Len(url_name) - 1) : ~(url_name[i] = "-" /\ url_name[i + 1] = "-")
    /\ IF LowerWords(name_arg) = <<>> THEN url_name = <<>>
       ELSE DashParts(url_name, <<>>) = LowerWords(name_arg)
    /\ pc = "done" => url_again = url_name

\* a letter that str.lower() would change
HasLowerForm(ch) == \E k \in DOMAIN UpperCase : UpperCase[k] = ch

\* C21 as stated: the URL name of a name of letters and whitespace has no
\* whitespace and no upper-case letter, no dash at either end and no two
\* dashes in a row, holds the words of the name in their order, and is its
\* own URL name.
C21_SlugNoUpperCase == SlugShape(IsUpperCase)

\* C21 amended: the same, with "no upper-case letter" for the letters that
\* have a lower-case form; a capital without one stays as it is.
C21_SlugLowered == SlugShape(HasLowerForm)

\* a name with blanks at both ends, two words with capitals and a run of two
\* blanks between them has been converted twice
C21_Witness ==
  /\ variant = "slug" /\ pc = "done"
  /\ Len(name_arg) >= 4
  /\ Head(name_arg) \in Whitespace
  /\ \E i \in 1..(Len(name_arg) - 1) : name_arg[i] \in Whitespace /\ name_arg[i + 1] \in Whitespace
  /\ \E i \in DOMAIN name_arg : name_arg[i] = "A"
  /\ url_name # <<>>

(* ----------------------- C22: the caller's inputs ------------------------ *)

\* a step that leaves the arguments of create_schedule as they were
InputsKept ==
  variant \in {"avoid", "rotation"} =>
    /\ companies' = companies
    /\ records' = records
    /\ companies_with_emails' = companies_with_emails
    /\ slot_config' = slot_config
    /\ variant = "rotation" => mentors' = mentors

DistinctDates ==
  IF variant = "avoid" /\ Returned
  THEN {d \in Dates : RosterOf(d) # <<>> /\ Distinct(RosterOf(d))}
  ELSE {}

\* the slot indices of a date, 0-based
SlotIndices(d) == 0..(Len(generate_time_slots(d)) - 1)

\* the records of date d in slot i for mentor a
RecordsAt(d, i, a) ==
  {k \in OnDate(d) :
     /\ schedule[k].start_time = generate_time_slots(d)[i + 1].start
     /\ schedule[k].mentor = a}

\* mentor a is the one who skips slot i of date d
SkipsSlot(d, i, a) == \E k \in RecordsAt(d, i, a) : IsSkipBreak(k)

\* C23: avoid-repeat, more mentors than companies: the mentor M[i mod m] has
\* one record in slot i, the BREAK of the skipping mentor, and in every m
\* slots in a row every mentor is the skipping mentor exactly once.
C23_SkipRotation ==
  \A d \in DistinctDates :
    LET M == RosterOf(d)
        m == Len(M)
    IN m > num_companies =>
         /\ \A i \in SlotIndices(d) :
              /\ Cardinality(RecordsAt(d, i, M[(i % m) + 1])) = 1
              /\ SkipsSlot(d, i, M[(i % m) + 1])
              /\ \A j \in DOMAIN M : SkipsSlot(d, i, M[j]) => j = (i % m) + 1
         /\ \A first \in SlotIndices(d) :
              (first + m - 1) \in SlotIndices(d) =>
                \A j \in DOMAIN M :
                  Cardinality({i \in first..(first + m - 1) : SkipsSlot(d, i, M[j])}) = 1

\* a finished run of three or more distinct mentors who outnumber the
\* companies and fit twice into the slots of the day
C23_Witness ==
  \E d \in DistinctDates :
    /\ Len(RosterOf(d)) >= 3 /\ Len(RosterOf(d)) > num_companies
    /\ 2 * Len(RosterOf(d)) <= Len(generate_time_slots(d))
    /\ \E k \in OnDate(d) : Real(k)

\* C24: avoid-repeat, no more mentors than companies: in slot i < c mentor
\* M[j] meets company C[(i + j) mod c], as in the index rotation, and in
\* every slot i >= c every mentor has a BREAK record; so every mentor meets
\* every company exactly once when the day has c slots or more.
C24_RotationWhenCompaniesSuffice ==
  \A d \in DistinctDates :
    LET M == RosterOf(d)
        c == num_companies
    IN Len(M) <= c =>
         /\ \A i \in SlotIndices(d), j \in DOMAIN M :
              /\ Cardinality(RecordsAt(d, i, M[j])) = 1
              /\ \A k \in RecordsAt(d, i, M[j]) :
                   schedule[k].company
                     = IF i < c THEN companies[((i + j - 1) % c) + 1] ELSE BREAK
         /\ c <= Len(generate_time_slots(d)) =>
              \A j \in DOMAIN M, b \in Range(companies) :
                Cardinality({k \in OnDate(d) : schedule[k].mentor = M[j]
                                                 /\ schedule[k].company = b}) = 1

\* a finished run of two or more distinct mentors and at least as many
\* companies, three or more, with fewer companies than slots
C24_Witness ==
  \E d \in DistinctDates :
    /\ Len(RosterOf(d)) >= 2 /\ Len(RosterOf(d)) <= num_companies
    /\ num_companies >= 3 /\ num_companies < Len(generate_time_slots(d))
    /\ \E k, l \in OnDate(d) : Real(k) /\ ~Real(l)

\* C25: avoid-repeat, distinct names, one company or more: every slot holds
\* exactly one record for each mentor of the date, s * m records in all.
C25_OneRecordPerMentorAndSlot ==
  \A d \in DistinctDates :
    num_companies >= 1 =>
      /\ \A i \in SlotIndices(d), j \in DOMAIN RosterOf(d) :
           Cardinality(RecordsAt(d, i, RosterOf(d)[j])) = 1
      /\ Cardinality(OnDate(d)) = Len(generate_time_slots(d)) * Len(RosterOf(d))

\* a finished run with more distinct mentors than companies in which a slot
\* holds two meetings and two BREAK records
C25_Witness ==
  \E d \in DistinctDates :
    /\ num_companies >= 2 /\ Len(RosterOf(d)) >= num_companies + 2
    /\ \E k, l, x, y \in OnDate(d) :
         /\ k < l /\ x < y /\ Real(k) /\ Real(l) /\ ~Real(x) /\ ~Real(y)
         /\ schedule[k].start_time = schedule[l].start_time
         /\ schedule[x].start_time = schedule[k].start_time
         /\ schedule[y].start_time = schedule[k].start_time

(* --------------------------- C26: --cache -------------------------------- *)

\* C26: with --cache no path through get_target_date_and_options calls
\* refresh_mentors.
C26_CacheNeverRefreshes ==
  (variant = "options" /\ args.cache) => refresh_calls = <<>>

(* ---------------------- C27: the date filter ----------------------------- *)

\* the record is booked, has a Name and is available on the date
BookedAndAvailable(fields, date_str) ==
  fields.name # NoField /\ fields.status = BookedStatus /\ fields.date = date_str

\* C27: with a filter date, convert_records_to_dataframe returns the entries
\* of exactly the records that are booked, have a Name and are available on
\* that date; a record without a Date field is not returned.
C27_OnlyAvailableOnDate ==
  (variant = "filter" /\ pc = "filtered" /\ filter_date # "") =>
     LET claimed == SelectSeq(airtable_records,
                              LAMBDA fields : BookedAndAvailable(fields, filter_date))
     IN mentors_data = [i \in DOMAIN claimed |-> MentorEntry(claimed[i])]

(* ---------------------- C28, C29: the calendar upload -------------------- *)

\* the ids of the events this run created
CreatedIds == {created_events[k][2] : k \in DOMAIN created_events}

\* the calendar holds, from before this run, an event with the summary and
\* the start time of event number i of the date
ExistedBefore(i) ==
  \E e \in DOMAIN calendar :
    /\ calendar[e].id \notin CreatedIds
    /\ calendar[e].summary = date_events[i + 1].summary
    /\ calendar[e].start_time = date_events[i + 1].start_time

\* C28: the second run for the same date creates no event whose summary and
\* start time an event that was already in the calendar has.
C28_NoDuplicateOnSecondRun ==
  (variant = "upload" /\ upload_run = 2) =>
     \A k \in DOMAIN created_events : ~ExistedBefore(created_events[k][1])

\* the indices recorded in a list of (i, ...) tuples
Indices(list) == [k \in DOMAIN list |-> list[k][1]]

\* s is strictly increasing
Increasing(s) == \A j, k \in DOMAIN s : j < k => s[j] < s[k]

\* C29: a failed insert does not stop the loop: the events attempted so far
\* are 0 .. event_index - 1, each in exactly one of created_events and
\* failed_events, each list in order, and when the loop has ended the two
\* lengths add up to the number of events of the date.
C29_EveryEventAccounted ==
  (variant = "upload" /\ pc \in {"upload", "uploaded"}) =>
     LET made == Indices(created_events)
         lost == Indices(failed_events)
     IN /\ Increasing(made) /\ Increasing(lost)
        /\ Range(made) \cap Range(lost) = {}
        /\ Range(made) \cup Range(lost) = 0 .. event_index - 1
        /\ \A k \in DOMAIN created_events :
             /\ created_events[k][3] = date_events[made[k] + 1].summary
             /\ \E e \in DOMAIN calendar : calendar[e].id = created_events[k][2]
        /\ \A k \in DOMAIN failed_events :
             failed_events[k][2] = date_events[lost[k] + 1].summary
        /\ pc = "uploaded" =>
             Len(created_events) + Len(failed_events) = Len(date_events)

\* a run has ended in which an insert failed and a later one succeeded
C29_Witness ==
  /\ variant = "upload" /\ pc = "uploaded"
  /\ failed_events # <<>> /\ created_events # <<>>
  /\ failed_events[1][1] < created_events[Len(created_events)][1]

====
